---- MODULE Spec2Model ----
(***************************************************************************)
(* EventSphere backend (src/backend/main.py, src/backend/schemas.py):      *)
(* the JWT authentication middleware, the login / protected / health       *)
(* routes and the GET /events validator and repository dispatch.           *)
(*                                                                         *)
(* One HTTP request is in flight at a time.  It moves through              *)
(*   idle -> gate -> app -> (handler -> repo ->) done -> idle               *)
(* where each arrow is one action below.  Time is counted in whole         *)
(* minutes of UTC; the numeric dates of a token (exp, iat) are whole       *)
(* minutes too, so jose's datetime -> integer conversion loses nothing at  *)
(* this resolution.                                                        *)
(***************************************************************************)
EXTENDS Integers, Sequences, FiniteSets, TLC

VARIABLES
    now,        \* the UTC wall clock, in minutes
    utcOffset,  \* local time minus UTC of the server process, in minutes
    jar,        \* the client's cookie jar: the token of the last Set-Cookie
    req,        \* the request in flight
    pc,         \* where the request in flight is
    user,       \* request.state.user of the request in flight
    filter,     \* EventsQueryParams instance / locals of get_events
    calls,      \* repository calls made for the request in flight
    resp,       \* the response sent for the request in flight
    trace       \* the steps the request in flight has gone through

vars == <<now, utcOffset, jar, req, pc, user, filter, calls, resp, trace>>

----------------------------------------------------------------------------
(* Bounds of the model. *)

\* The clock stops at MaxNow in the gate and events specifications.
MaxNow == 2
\* The clock stops at TokenTtl + LoginSlack in the login specification.
LoginSlack == 2
\* Longest `cats` query string, in characters.
MaxCatsLen == 3
\* Instants a well-formed start / end may name: 1..MaxInstant.
MaxInstant == 2

----------------------------------------------------------------------------
(* Program constants. *)

\* main.py:26  SECRET_KEY (the value itself is irrelevant, only its identity)
SECRET_KEY == "your-secret-key-change-in-production"
\* a key that is not SECRET_KEY
OTHER_KEY == "not-the-secret-key"
\* main.py:134  timedelta(minutes=15)
TokenTtl == 15
\* main.py:140
LoginSubject == "authentication"
\* main.py:53, 68, 82
NotAuthenticated == "Not authenticated"
\* main.py:101, 111, 124
Unauthorized == "Unauthorized"

\* Offsets of the server's local time zone from UTC, in minutes.
UtcOffsets == {0 - 60, 0, 60}

----------------------------------------------------------------------------
(* Tokens.  A token string is modelled by what it was made from: the claims *)
(* and the key it was signed with, plus whatever was appended afterwards.   *)

NoClaims == [has_exp |-> FALSE, exp |-> 0, iat |-> 0, sub |-> ""]

Claims(exp, iat, sub) == [has_exp |-> TRUE, exp |-> exp, iat |-> iat, sub |-> sub]

\* Absent cookie / header value (Python None).
NoToken == [kind |-> "none", claims |-> NoClaims, key |-> "", suffix |-> ""]
\* The empty string.
EmptyToken == [kind |-> "empty", claims |-> NoClaims, key |-> "", suffix |-> ""]
\* A string that is not three base64 segments of a JWT ("x.y.z").
GarbageToken == [kind |-> "garbage", claims |-> NoClaims, key |-> "", suffix |-> ""]

\* jose.jwt.encode(claims, key, algorithm="HS256")
JwtEncode(claims, key) ==
    [kind |-> "jwt", claims |-> claims, key |-> key, suffix |-> ""]

\* token + "tampered"
Tamper(token) == [token EXCEPT !.suffix = "tampered"]

\* Python truthiness of an Optional[str]
Truthy(token) == token.kind \notin {"none", "empty"}

\* Mutant of SignatureOk: any well-formed JWT is accepted, whatever its key.
SignatureOk_NoKeyCheck(token, key) ==
    token.kind = "jwt" /\ token.suffix = ""

\* jose.jwt.decode without the exp check: signature and structure only.
SignatureOk(token, key) ==
    token.kind = "jwt" /\ token.suffix = "" /\ token.key = key

\* jose.jwt.decode(token, key, algorithms=["HS256"]) evaluated at UTC time t:
\* JWTError on a bad signature or format, ExpiredSignatureError (a JWTError)
\* when an exp claim is present and exp < t.
JwtDecode(token, key, t) ==
    IF ~SignatureOk(token, key)
    THEN [error |-> "JWTError", payload |-> NoClaims]
    ELSE IF token.claims.has_exp /\ token.claims.exp < t
    THEN [error |-> "JWTError", payload |-> NoClaims]
    ELSE [error |-> "", payload |-> token.claims]

\* datetime.utcnow().timestamp(): the naive UTC wall clock read as local time.
UtcNowTimestamp == now - utcOffset

----------------------------------------------------------------------------
(* Query parameters of GET /events.  A `start` / `end` value is a string:   *)
(* absent, empty, some text that is no date, or an ISO8601 date naming an   *)
(* instant with a zone suffix.  A `cats` value is absent or a string of     *)
(* characters.                                                              *)

NoDate == [kind |-> "none", instant |-> 0, zone |-> ""]
EmptyDate == [kind |-> "empty", instant |-> 0, zone |-> ""]
\* "invalid-date-format"
TextDate == [kind |-> "text", instant |-> 0, zone |-> ""]
\* e.g. "2025-08-01T00:00:00Z" / "2025-08-01T00:00:00+00:00"
IsoDate(i, z) == [kind |-> "iso", instant |-> i, zone |-> z]

NoCats == [present |-> FALSE, chars |-> <<>>]
CatsOf(s) == [present |-> TRUE, chars |-> s]

\* Python truthiness of an Optional[str] date / cats parameter
DateTruthy(d) == d.kind \notin {"none", "empty"}
CatsTruthy(c) == c.present /\ Len(c.chars) > 0

\* v.replace('Z', '+00:00')
ReplaceZ(d) ==
    IF d.kind = "iso" /\ d.zone = "Z" THEN [d EXCEPT !.zone = "+00:00"] ELSE d

\* datetime.fromisoformat(v) succeeds (no 'Z' suffix before Python 3.11, and
\* the code never passes one: it always replaces it first)
FromIsoformatOk(d) ==
    d.kind = "iso" /\ d.zone # "Z"

\* schemas.py validate_datetime_format: TRUE when the field validator passes
ValidateDatetimeFormat(v) ==
    v.kind = "none" \/ FromIsoformatOk(ReplaceZ(v))

\* schemas.py validate_time_filters: TRUE when the model validator passes
ValidateTimeFilters(start, end) ==
    (start.kind = "none") = (end.kind = "none")

\* schemas.py validate_at_least_one_filter: TRUE when the model validator passes
ValidateAtLeastOneFilter(start, end, cats) ==
    ~(~DateTruthy(start) /\ ~DateTruthy(end) /\ ~CatsTruthy(cats))

\* EventsQueryParams(start=..., end=..., cats=...) does not raise
EventsQueryParamsOk(start, end, cats) ==
    /\ ValidateDatetimeFormat(start)
    /\ ValidateDatetimeFormat(end)
    /\ ValidateTimeFilters(start, end)
    /\ ValidateAtLeastOneFilter(start, end, cats)

\* The model instance: the field validator returns the replaced string.
EventsQueryParams(start, end, cats) ==
    [start |-> ReplaceZ(start), end |-> ReplaceZ(end), cats |-> cats]

NoFilter == [start |-> NoDate, end |-> NoDate, cats |-> NoCats]

\* str.split(",")
RECURSIVE SplitComma(_)
SplitComma(s) ==
    IF \A i \in 1..Len(s) : s[i] # ","
    THEN <<s>>
    ELSE LET i == CHOOSE k \in 1..Len(s) :
                      s[k] = "," /\ \A j \in 1..(k - 1) : s[j] # ","
         IN  <<SubSeq(s, 1, i - 1)>> \o SplitComma(SubSeq(s, i + 1, Len(s)))

\* str.strip()
RECURSIVE Strip(_)
Strip(s) ==
    IF s = <<>> THEN s
    ELSE IF Head(s) = " " THEN Strip(Tail(s))
    ELSE IF s[Len(s)] = " " THEN Strip(SubSeq(s, 1, Len(s) - 1))
    ELSE s

RECURSIVE StripNonEmpty(_)
StripNonEmpty(parts) ==
    IF parts = <<>> THEN <<>>
    ELSE (IF Strip(Head(parts)) # <<>> THEN <<Strip(Head(parts))>> ELSE <<>>)
         \o StripNonEmpty(Tail(parts))

\* main.py:190  [cat.strip() for cat in cats.split(",") if cat.strip()]
ParseCategories(chars) ==
    StripNonEmpty(SplitComma(chars))

----------------------------------------------------------------------------
(* Requests and responses. *)

\* No Authorization header.
NoAuthorization == [scheme |-> "", token |-> NoToken]
\* Authorization: <scheme><token>, e.g. scheme "Bearer " (with its space)
Authorization(scheme, token) == [scheme |-> scheme, token |-> token]

Request(type, method, path, authorization, cookie, start, end, cats) ==
    [type |-> type, method |-> method, path |-> path,
     authorization |-> authorization, cookie |-> cookie,
     start |-> start, end |-> end, cats |-> cats]

NoRequest ==
    Request("none", "", "", NoAuthorization, NoToken, NoDate, NoDate, NoCats)

\* A response: status, body and the cookie it sets.  The body is one of
\*   empty;  detail: {"detail": <detail>};  status: {"status": "ok"};
\*   user: {"message": ..., "user": <user>};  events: the list <events>;
\*   error: the server's plain "Internal Server Error" / router's error text.
Body(kind, detail, usr, events) ==
    [kind |-> kind, detail |-> detail, user |-> usr, events |-> events]

Response(status, body) == [status |-> status, body |-> body, set_cookie |-> NoToken]

NoResponse == Response(0, Body("none", "", NoClaims, <<>>))

\* Response(content='{"detail": ...}', status_code=..., media_type="application/json")
DetailResponse(status, detail) ==
    Response(status, Body("detail", detail, NoClaims, <<>>))

\* An exception no handler catches: ServerErrorMiddleware answers 500.
InternalServerError == Response(500, Body("error", "", NoClaims, <<>>))

\* request.state has no attribute `user`
NoUser == [set |-> FALSE, payload |-> NoClaims]
UserOf(payload) == [set |-> TRUE, payload |-> payload]

Step(name) == [step |-> name, at |-> now]

Steps(tr) == {tr[i].step : i \in 1..Len(tr)}

----------------------------------------------------------------------------
(* The state after construction: no request yet, an empty cookie jar. *)

Init ==
    /\ now = 0
    /\ utcOffset \in UtcOffsets
    /\ jar = NoToken
    /\ req = NoRequest
    /\ pc = "idle"
    /\ user = NoUser
    /\ filter = NoFilter
    /\ calls = <<>>
    /\ resp = NoResponse
    /\ trace = <<>>

\* Time passes, up to the bound `max`.
Tick(max) ==
    /\ now < max
    /\ now' = now + 1
    /\ UNCHANGED <<utcOffset, jar, req, pc, user, filter, calls, resp, trace>>

\* A request from the set R arrives when none is in flight; its context
\* (request.state, the handler's locals) is fresh.
Receive(R) ==
    /\ pc = "idle"
    /\ \E r \in R : req' = r
    /\ pc' = "gate"
    /\ UNCHANGED <<now, utcOffset, jar, user, filter, calls, resp, trace>>

\* The answered request and its context are dropped.
Close ==
    /\ pc = "done"
    /\ pc' = "idle"
    /\ req' = NoRequest
    /\ user' = NoUser
    /\ filter' = NoFilter
    /\ calls' = <<>>
    /\ resp' = NoResponse
    /\ trace' = <<>>
    /\ UNCHANGED <<now, utcOffset, jar>>

\* The request is answered with r after the steps `steps`.
Answer(r, steps) ==
    /\ resp' = r
    /\ pc' = "done"
    /\ trace' = trace \o steps

----------------------------------------------------------------------------
(* JWTMiddleware.__call__ *)

\* Mutant of IsPublicPath: the allow-list is matched by prefix.
IsPublicPath_Prefix(path) ==
    path \in {"/login", "/health", "/healthz"}

\* Mutant of IsPublicPath: the events route is on the allow-list too.
IsPublicPath_Events(path) ==
    path \in {"/login", "/health", "/events"}

\* main.py:42
IsPublicPath(path) ==
    path = "/login" \/ path = "/health"

\* main.py:47  request.cookies.get("token")
ExtractToken(r) ==
    r.cookie

\* main.py:65  datetime.utcnow().timestamp() > payload["exp"]
IsExpired(payload) ==
    UtcNowTimestamp > payload.exp

\* Mutant of Deny: the body of the exception handlers is sent instead.
Deny_Unauthorized == DetailResponse(401, Unauthorized)

\* main.py:52-58, 67-73, 81-87
Deny == DetailResponse(401, NotAuthenticated)

\* What __call__ does with the request r up to its response or to its
\* `await self.app(...)`: where the request goes next, whether
\* request.state.user is assigned and to what, the response sent if any,
\* and the steps taken.
Outcome(next, assigns, payload, response, steps) ==
    [pc |-> next, assigns |-> assigns, payload |-> payload,
     resp |-> response, steps |-> steps]

GateOutcome(r) ==
    IF r.type # "http" \/ IsPublicPath(r.path)
    THEN Outcome("app", FALSE, NoClaims, NoResponse,
                 <<Step(IF r.type # "http" THEN "passthrough" ELSE "bypass")>>)
    ELSE LET token == ExtractToken(r)
             decoded == JwtDecode(token, SECRET_KEY, now)
         IN  IF ~Truthy(token)
             THEN Outcome("done", FALSE, NoClaims, Deny,
                          <<Step("extract"), Step("deny")>>)
             ELSE IF decoded.error # ""
             THEN Outcome("done", FALSE, NoClaims, Deny,
                          <<Step("extract"), Step("verify"), Step("deny")>>)
             ELSE IF ~decoded.payload.has_exp
             THEN \* payload["exp"] raises KeyError
                  Outcome("done", FALSE, NoClaims, InternalServerError,
                          <<Step("extract"), Step("verify"), Step("error")>>)
             ELSE IF IsExpired(decoded.payload)
             THEN Outcome("done", FALSE, NoClaims, Deny,
                          <<Step("extract"), Step("verify"), Step("deny")>>)
             ELSE Outcome("app", TRUE, decoded.payload, NoResponse,
                          <<Step("extract"), Step("verify"), Step("accept")>>)

JWTMiddlewareCall ==
    /\ pc = "gate"
    /\ LET o == GateOutcome(req)
       IN  /\ pc' = o.pc
           /\ user' = IF o.assigns THEN UserOf(o.payload) ELSE user
           /\ resp' = IF o.pc = "done" THEN o.resp ELSE resp
           /\ trace' = trace \o o.steps
    /\ UNCHANGED <<now, utcOffset, jar, req, filter, calls>>

----------------------------------------------------------------------------
(* The router and the route handlers. *)

\* main.py:117, 127, 175, 225: the method each path is registered with
RouteMethod(path) ==
    CASE path = "/protected" -> "GET"
      [] path = "/login" -> "POST"
      [] path = "/events" -> "GET"
      [] path = "/health" -> "GET"
      [] OTHER -> ""

Routed(r, path) ==
    r.type = "http" /\ r.path = path /\ r.method = RouteMethod(path)

\* No route takes the request: the router answers 404 (unknown path), 405
\* (known path, other method) or refuses the websocket (403).
RouterDefault ==
    /\ pc = "app"
    /\ \/ req.type # "http"
       \/ RouteMethod(req.path) # req.method
    /\ Answer(Response(IF req.type # "http" THEN 403
                       ELSE IF RouteMethod(req.path) = "" THEN 404 ELSE 405,
                       Body("error", "", NoClaims, <<>>)),
              <<Step("router_default")>>)
    /\ UNCHANGED <<now, utcOffset, jar, req, user, filter, calls>>

\* main.py:134-144: the token login issues at UTC time t
LoginToken(t) ==
    JwtEncode(Claims(t + TokenTtl, t, LoginSubject), SECRET_KEY)

\* POST /login
Login ==
    /\ pc = "app"
    /\ Routed(req, "/login")
    /\ LET token == LoginToken(now)
       IN  /\ Answer([Response(200, Body("null", "", NoClaims, <<>>))
                         EXCEPT !.set_cookie = token],
                     <<Step("handler:login")>>)
           /\ jar' = token
    /\ UNCHANGED <<now, utcOffset, req, user, filter, calls>>

\* GET /health
HealthCheck ==
    /\ pc = "app"
    /\ Routed(req, "/health")
    /\ Answer(Response(200, Body("status", "ok", NoClaims, <<>>)),
              <<Step("handler:health_check")>>)
    /\ UNCHANGED <<now, utcOffset, jar, req, user, filter, calls>>

\* GET /protected: request.state.user raises AttributeError when unset
ProtectedRouteResponse(u) ==
    IF u.set
    THEN Response(200, Body("user", "Authenticated successfully", u.payload, <<>>))
    ELSE InternalServerError

ProtectedRoute ==
    /\ pc = "app"
    /\ Routed(req, "/protected")
    /\ Answer(ProtectedRouteResponse(user), <<Step("handler:protected_route")>>)
    /\ UNCHANGED <<now, utcOffset, jar, req, user, filter, calls>>

\* GET /events, the dependencies of get_events in the order of its signature:
\* EventsQueryParams(start, end, cats) - a pydantic ValidationError raised
\* inside a dependency is no RequestValidationError and no handler catches
\* it - then get_current_user.
SolveDependencies ==
    /\ pc = "app"
    /\ Routed(req, "/events")
    /\ UNCHANGED <<now, utcOffset, jar, req, user, calls>>
    /\ IF ~EventsQueryParamsOk(req.start, req.end, req.cats)
       THEN /\ Answer(InternalServerError, <<Step("validate"), Step("error")>>)
            /\ UNCHANGED filter
       ELSE IF ~user.set
       THEN /\ Answer(DetailResponse(401, Unauthorized),
                      <<Step("validate"), Step("current_user")>>)
            /\ UNCHANGED filter
       ELSE /\ filter' = EventsQueryParams(req.start, req.end, req.cats)
            /\ pc' = "handler"
            /\ trace' = trace \o <<Step("validate"), Step("current_user")>>
            /\ UNCHANGED resp

\* datetime.fromisoformat(s): the instant the string names
FromIsoformat(d) == d.instant

\* A call of a repository method, and how it ended: pending, returned (with
\* the events it returned) or raised.
RepoCall(method, start, end, categories) ==
    [method |-> method, start |-> start, end |-> end, categories |-> categories,
     outcome |-> "pending", events |-> <<>>]

\* Mutant of SelectMethod: the combined case falls to the time-range method.
SelectMethod_NoCombined(has_time_filter, has_category_filter) ==
    IF has_time_filter THEN "get_events_by_time_range"
    ELSE IF has_category_filter THEN "get_events_by_category"
    ELSE "none"

\* main.py:212-220
SelectMethod(has_time_filter, has_category_filter) ==
    IF has_time_filter /\ has_category_filter
    THEN "get_events_by_time_and_category"
    ELSE IF has_time_filter THEN "get_events_by_time_range"
    ELSE IF has_category_filter THEN "get_events_by_category"
    ELSE "none"

\* get_events, up to the await of the repository call
GetEvents ==
    /\ pc = "handler"
    /\ UNCHANGED <<now, utcOffset, jar, req, user, filter>>
    /\ LET has_cats == CatsTruthy(filter.cats)
           categories == IF has_cats THEN ParseCategories(filter.cats.chars)
                         ELSE <<>>
           has_time_filter == DateTruthy(filter.start) /\ DateTruthy(filter.end)
           start_dt == IF has_time_filter
                       THEN FromIsoformat(ReplaceZ(filter.start)) ELSE 0
           end_dt == IF has_time_filter
                     THEN FromIsoformat(ReplaceZ(filter.end)) ELSE 0
           has_category_filter == has_cats
           method == SelectMethod(has_time_filter, has_category_filter)
       IN  IF has_cats /\ categories = <<>>
           THEN /\ Answer(DetailResponse(422,
                    "Invalid categories parameter: must contain at least one non-empty category"),
                    <<Step("handler:get_events"), Step("empty_categories")>>)
                /\ UNCHANGED calls
           ELSE IF method = "none"
           THEN /\ Answer(DetailResponse(422, "At least one filter must be provided"),
                    <<Step("handler:get_events"), Step("no_filter_branch")>>)
                /\ UNCHANGED calls
           ELSE /\ calls' = Append(calls,
                        RepoCall(method,
                                 IF has_time_filter THEN start_dt ELSE 0,
                                 IF has_time_filter THEN end_dt ELSE 0,
                                 IF has_category_filter THEN categories ELSE <<>>))
                /\ pc' = "repo"
                /\ trace' = trace \o <<Step("handler:get_events"), Step("dispatch")>>
                /\ UNCHANGED resp

\* What the repository may return.
EventLists == {<<>>, <<"event1">>}

\* The awaited repository method returns: `return events`
RepoReturn ==
    /\ pc = "repo"
    /\ \E events \in EventLists :
          /\ calls' = [calls EXCEPT ![Len(calls)].outcome = "returned",
                                    ![Len(calls)].events = events]
          /\ Answer(Response(200, Body("events", "", NoClaims, calls'[Len(calls)].events)),
                    <<Step("repo_return")>>)
    /\ UNCHANGED <<now, utcOffset, jar, req, user, filter>>

\* Mutant of RepoRaise: the failed call is retried once.
RepoRaise_Retry ==
    /\ pc = "repo"
    /\ IF Len(calls) < 2
       THEN /\ calls' = Append([calls EXCEPT ![Len(calls)].outcome = "raised"],
                               [calls[Len(calls)] EXCEPT !.outcome = "pending"])
            /\ trace' = trace \o <<Step("repo_raise")>>
            /\ UNCHANGED <<pc, resp>>
       ELSE /\ calls' = [calls EXCEPT ![Len(calls)].outcome = "raised"]
            /\ Answer(InternalServerError, <<Step("repo_raise")>>)
    /\ UNCHANGED <<now, utcOffset, jar, req, user, filter>>

\* The awaited repository method raises: nothing in get_events catches it
RepoRaise ==
    /\ pc = "repo"
    /\ calls' = [calls EXCEPT ![Len(calls)].outcome = "raised"]
    /\ Answer(InternalServerError, <<Step("repo_raise")>>)
    /\ UNCHANGED <<now, utcOffset, jar, req, user, filter>>

----------------------------------------------------------------------------
(* The requests a client may send. *)

Methods == {"GET", "POST"}

\* The four routes, and two paths that only resemble an allow-listed one.
Paths == {"/login", "/health", "/protected", "/events", "/healthz", "/api/login"}

\* An expiry no clock of the model reaches, in any time zone: a day.
FarFuture == 24 * 60

\* A token signed with SECRET_KEY outside login, as the tests make them.
SignedToken(exp) == JwtEncode(Claims(exp, 0, LoginSubject), SECRET_KEY)

\* Signed with SECRET_KEY, carrying no exp claim.
NoExpToken ==
    JwtEncode([has_exp |-> FALSE, exp |-> 0, iat |-> 0, sub |-> LoginSubject],
              SECRET_KEY)

\* Signed with another key.
ForgedToken == JwtEncode(Claims(FarFuture, 0, LoginSubject), OTHER_KEY)

GateCookies ==
    {NoToken, EmptyToken, GarbageToken, NoExpToken, ForgedToken,
     SignedToken(1), SignedToken(FarFuture), Tamper(SignedToken(FarFuture))}

GateHeaders ==
    {NoAuthorization, Authorization("bearer ", SignedToken(FarFuture))}
    \cup {Authorization("Bearer ", t) :
            t \in {EmptyToken, GarbageToken, SignedToken(1), SignedToken(FarFuture)}}

GateRequests ==
    {Request("http", m, p, a, c, NoDate, NoDate, NoCats) :
        m \in Methods, p \in Paths, a \in GateHeaders, c \in GateCookies \cup {jar}}
    \cup {Request("http", "GET", "/events", a, c, NoDate, NoDate, CatsOf(<<"a">>)) :
        a \in GateHeaders, c \in GateCookies \cup {jar}}
    \cup {Request("websocket", "GET", p, NoAuthorization, NoToken, NoDate, NoDate, NoCats) :
        p \in {"/protected", "/health"}}

\* Login, and the replay of the jar's token by cookie or by header.
LoginRequests ==
    {Request("http", "POST", "/login", NoAuthorization, NoToken, NoDate, NoDate, NoCats),
     Request("http", "GET", "/protected", NoAuthorization, jar, NoDate, NoDate, NoCats),
     Request("http", "GET", "/protected", Authorization("Bearer ", jar), NoToken,
             NoDate, NoDate, NoCats)}

Chars == {" ", ",", "a", "b"}

CatsStrings == UNION {[1..k -> Chars] : k \in 0..MaxCatsLen}

DateStrings ==
    {NoDate, EmptyDate, TextDate, IsoDate(1, "+00:00")}
    \cup {IsoDate(i, "Z") : i \in 1..MaxInstant}

EventsRequests ==
    {Request("http", "GET", "/events", NoAuthorization, c, s, e, q) :
        c \in {NoToken, SignedToken(FarFuture)},
        s \in DateStrings, e \in DateStrings,
        q \in {NoCats} \cup {CatsOf(x) : x \in CatsStrings}}

----------------------------------------------------------------------------
(* Specifications. *)

\* The gate and every route, under every kind of credential.
Next ==
    \/ Tick(MaxNow)
    \/ Receive(GateRequests)
    \/ Close
    \/ JWTMiddlewareCall
    \/ RouterDefault
    \/ Login
    \/ HealthCheck
    \/ ProtectedRoute
    \/ SolveDependencies
    \/ GetEvents
    \/ RepoReturn
    \/ RepoRaise

Spec == Init /\ [][Next]_vars

\* Login and the replay of its token until after the token's expiry.
NextLogin ==
    \/ Tick(TokenTtl + LoginSlack)
    \/ Receive(LoginRequests)
    \/ Close
    \/ JWTMiddlewareCall
    \/ Login
    \/ ProtectedRoute

SpecLogin == Init /\ [][NextLogin]_vars

\* GET /events under every combination of query parameters.
NextEvents ==
    \/ Receive(EventsRequests)
    \/ Close
    \/ JWTMiddlewareCall
    \/ SolveDependencies
    \/ GetEvents
    \/ RepoReturn
    \/ RepoRaise

SpecEvents == Init /\ [][NextEvents]_vars

----------------------------------------------------------------------------
(* Several requests in flight.  The ASGI server calls the application once  *)
(* per request, each call with a scope of its own, and the calls interleave *)
(* at their awaits (the handler of /protected, a plain `def`, runs in a     *)
(* worker thread).  In this specification req, pc, user, resp and trace     *)
(* hold one value per scope: what they hold for the one request in flight   *)
(* in the specifications above.                                             *)

MaxInFlight == 2

Scopes == 1..MaxInFlight

\* Mutant of StateOf: one state object for the whole application.
StateOf_App(scope) == 1

\* main.py:39, 76: request.state of Request(scope, receive) is the state of
\* that scope.
StateOf(scope) == scope

\* Two tokens that verify, with different payloads, one that does not, none.
ConcurrentCookies ==
    {NoToken, Tamper(SignedToken(FarFuture)),
     SignedToken(FarFuture), SignedToken(FarFuture + 1)}

ConcurrentRequests ==
    {Request("http", "GET", "/protected", NoAuthorization, c, NoDate, NoDate, NoCats) :
        c \in ConcurrentCookies}

InitConcurrent ==
    /\ now = 0
    /\ utcOffset \in UtcOffsets
    /\ jar = NoToken
    /\ req = [s \in Scopes |-> NoRequest]
    /\ pc = [s \in Scopes |-> "idle"]
    /\ user = [s \in Scopes |-> NoUser]
    /\ filter = NoFilter
    /\ calls = <<>>
    /\ resp = [s \in Scopes |-> NoResponse]
    /\ trace = [s \in Scopes |-> <<>>]

\* A request arrives in the scope s; the state of a new scope is empty.
ReceiveIn(s, R) ==
    /\ pc[s] = "idle"
    /\ \E r \in R : req' = [req EXCEPT ![s] = r]
    /\ pc' = [pc EXCEPT ![s] = "gate"]
    /\ UNCHANGED <<now, utcOffset, jar, user, filter, calls, resp, trace>>

\* JWTMiddleware.__call__ for the request of the scope s
JWTMiddlewareCallIn(s) ==
    /\ pc[s] = "gate"
    /\ LET o == GateOutcome(req[s])
       IN  /\ pc' = [pc EXCEPT ![s] = o.pc]
           /\ user' = IF o.assigns
                      THEN [user EXCEPT ![StateOf(s)] = UserOf(o.payload)]
                      ELSE user
           /\ resp' = IF o.pc = "done" THEN [resp EXCEPT ![s] = o.resp] ELSE resp
           /\ trace' = [trace EXCEPT ![s] = @ \o o.steps]
    /\ UNCHANGED <<now, utcOffset, jar, req, filter, calls>>

\* protected_route for the request of the scope s
ProtectedRouteIn(s) ==
    /\ pc[s] = "app"
    /\ Routed(req[s], "/protected")
    /\ resp' = [resp EXCEPT ![s] = ProtectedRouteResponse(user[StateOf(s)])]
    /\ pc' = [pc EXCEPT ![s] = "done"]
    /\ trace' = [trace EXCEPT ![s] = @ \o <<Step("handler:protected_route")>>]
    /\ UNCHANGED <<now, utcOffset, jar, req, user, filter, calls>>

\* The answered request of the scope s is dropped, its state with it.
CloseIn(s) ==
    /\ pc[s] = "done"
    /\ pc' = [pc EXCEPT ![s] = "idle"]
    /\ req' = [req EXCEPT ![s] = NoRequest]
    /\ user' = [user EXCEPT ![StateOf(s)] = NoUser]
    /\ resp' = [resp EXCEPT ![s] = NoResponse]
    /\ trace' = [trace EXCEPT ![s] = <<>>]
    /\ UNCHANGED <<now, utcOffset, jar, filter, calls>>

NextConcurrent ==
    \/ \E s \in Scopes : ReceiveIn(s, ConcurrentRequests)
    \/ \E s \in Scopes : JWTMiddlewareCallIn(s)
    \/ \E s \in Scopes : ProtectedRouteIn(s)
    \/ \E s \in Scopes : CloseIn(s)

SpecConcurrent == InitConcurrent /\ [][NextConcurrent]_vars

----------------------------------------------------------------------------
(* Vocabulary of the properties below.  These are statements about the     *)
(* requests and responses, written without the operators of the model's    *)
(* middleware and validators.                                               *)

\* The steps that belong to a route: its dependencies, its handler, its
\* repository call.
RouteSteps ==
    {"handler:login", "handler:health_check", "handler:protected_route",
     "handler:get_events", "validate", "current_user", "dispatch",
     "empty_categories", "no_filter_branch", "repo_return", "repo_raise"}

ReachedRoute == Steps(trace) \cap RouteSteps # {}

\* The request in flight has left the gate.
PastGate == pc \in {"app", "handler", "repo", "done"}

\* The time at which the gate handled the request in flight.
GateTime == trace[1].at

Protected(r) == r.type = "http" /\ r.path \notin {"/login", "/health"}

\* A credential that verifies (signed with the key, nothing appended,
\* carrying an expiry) and is not expired at time t.
ValidAt(token, t) ==
    /\ token.kind = "jwt"
    /\ token.key = SECRET_KEY
    /\ token.suffix = ""
    /\ token.claims.has_exp
    /\ ~(t > token.claims.exp)

DenialResponse ==
    [status |-> 401,
     body |-> [kind |-> "detail", detail |-> "Not authenticated",
               user |-> NoClaims, events |-> <<>>],
     set_cookie |-> NoToken]

----------------------------------------------------------------------------
\* C1: for a request whose path is neither "/login" nor "/health", a route
\* (its dependencies, its handler, its repository call) is entered only if
\* the gate accepted a credential of that request that verifies and was not
\* expired when the gate ran; a protected HTTP request without such a
\* credential is answered by the gate itself and enters no route.
C1_HandlerOnlyBehindGate ==
    (req.type # "none" /\ req.path \notin {"/login", "/health"}) =>
        /\ ReachedRoute =>
              \E i \in 1..Len(trace) :
                  trace[i].step = "accept" /\ ValidAt(req.cookie, trace[i].at)
        /\ (PastGate /\ req.type = "http" /\ ~ValidAt(req.cookie, GateTime)) =>
              /\ pc = "done"
              /\ ~ReachedRoute
              /\ Steps(trace) \subseteq {"extract", "verify", "deny", "error"}
              /\ resp.status \in {401, 500}

\* C1 witness: a protected route answered 200 behind an accepted credential.
C1_Witness ==
    /\ pc = "done"
    /\ req.path = "/protected"
    /\ "handler:protected_route" \in Steps(trace)
    /\ "accept" \in Steps(trace)
    /\ resp.status = 200

----------------------------------------------------------------------------
\* The ways a credential fails, as the caller made it.
Absent(token) == token.kind \in {"none", "empty"}
Malformed(token) == token.kind = "garbage"
BadSignature(token) ==
    token.kind = "jwt" /\ (token.key # SECRET_KEY \/ token.suffix # "")
ExpiredAt(token, t) ==
    /\ token.kind = "jwt" /\ token.key = SECRET_KEY /\ token.suffix = ""
    /\ token.claims.has_exp /\ t > token.claims.exp

\* C2: every response with status 401 has the body {"detail": "Not
\* authenticated"} and nothing else, on every route; and a protected request
\* whose credential is absent, malformed, badly signed or expired is answered
\* with exactly that response, whichever of the four it is.
C2_UniformDenial ==
    /\ resp.status = 401 => resp = DenialResponse
    /\ (pc = "done" /\ Protected(req)
        /\ (\/ Absent(req.cookie)
            \/ Malformed(req.cookie)
            \/ BadSignature(req.cookie)
            \/ ExpiredAt(req.cookie, GateTime))) => resp = DenialResponse

\* C2 witness: a token that was valid, with characters appended, is denied.
C2_Witness ==
    /\ pc = "done"
    /\ Protected(req)
    /\ req.cookie.kind = "jwt" /\ req.cookie.key = SECRET_KEY
    /\ req.cookie.suffix # ""
    /\ resp = DenialResponse

----------------------------------------------------------------------------
\* The credential the request presents: the jar's token, by header or cookie.
Presented(r) ==
    IF r.authorization.scheme = "Bearer " THEN r.authorization.token ELSE r.cookie

\* C3: a token issued by POST /login and replayed on GET /protected, by the
\* Authorization header or by the cookie, is accepted (200) at every time up
\* to its expiry, 15 minutes after issue, and denied (401) at every later
\* time.  (Stated for a server whose local time is UTC, where
\* datetime.utcnow().timestamp() is the UTC time.)
C3_IssuedTokenLivesFifteenMinutes ==
    (/\ utcOffset = 0
     /\ pc = "done"
     /\ req.path = "/protected"
     /\ Presented(req).kind = "jwt"
     /\ Presented(req).claims.exp = Presented(req).claims.iat + 15) =>
        IF GateTime > Presented(req).claims.exp
        THEN resp.status = 401
        ELSE resp.status = 200

----------------------------------------------------------------------------
\* C4: the credential is the remainder of an Authorization header that
\* starts with "Bearer " (even when empty), and the cookie only without such
\* a header: right after the gate ran, the request was accepted exactly when
\* that credential passes verification.  So a valid token in the header with
\* no cookie is accepted, and an empty bearer value is denied even beside a
\* valid cookie.
C4_HeaderBeforeCookie ==
    (PastGate /\ Protected(req) /\ GateTime = now) =>
        LET credential == Presented(req)
            decoded == JwtDecode(credential, SECRET_KEY, now)
            verifies == /\ Truthy(credential)
                        /\ decoded.error = ""
                        /\ decoded.payload.has_exp
                        /\ ~IsExpired(decoded.payload)
        IN  /\ verifies => "accept" \in Steps(trace)
            /\ ~verifies => (pc = "done" /\ resp.status \in {401, 500})

----------------------------------------------------------------------------
\* C5: a request whose path is exactly "/login" or "/health" passes the gate
\* without its credential being extracted or verified, whatever it carries,
\* and reaches its route: GET /health is answered 200 and POST /login is
\* answered 200.  A path that only resembles one of the two ("/healthz",
\* "/api/login") is not let through: its credential is extracted.
C5_ExactAllowList ==
    /\ (PastGate /\ req.type = "http" /\ req.path \in {"/login", "/health"}) =>
          /\ trace[1].step = "bypass"
          /\ Steps(trace) \cap {"extract", "verify", "deny", "accept"} = {}
          /\ ~user.set
          /\ (pc = "done" /\ req.method = "GET" /\ req.path = "/health") =>
                (resp.status = 200 /\ "handler:health_check" \in Steps(trace))
          /\ (pc = "done" /\ req.method = "POST" /\ req.path = "/login") =>
                (resp.status = 200 /\ "handler:login" \in Steps(trace))
    /\ (PastGate /\ req.type = "http" /\ req.path \in {"/healthz", "/api/login"}) =>
          /\ trace[1].step = "extract"
          /\ ~ValidAt(req.cookie, GateTime) => resp.status \in {401, 500}

\* C5 witness: GET /health answered 200 although it carried a tampered token.
C5_Witness ==
    /\ pc = "done"
    /\ req.path = "/health"
    /\ req.cookie.suffix # ""
    /\ resp.status = 200

----------------------------------------------------------------------------
(* GET /events: what the caller asked for, read off the raw query string.  *)

Min(S) == CHOOSE x \in S : \A y \in S : x <= y
Max(S) == CHOOSE x \in S : \A y \in S : x >= y

\* The positions that delimit the comma-separated parts of s.
Cuts(s) == {0} \cup {i \in 1..Len(s) : s[i] = ","} \cup {Len(s) + 1}

\* The non-blank positions of the part that starts after cut a.
Ink(s, a) ==
    LET b == Min({c \in Cuts(s) : c > a})
    IN  {i \in (a + 1)..(b - 1) : s[i] # " "}

\* The cuts that open a part with something other than blanks in it.
PartStarts(s) == {a \in Cuts(s) : a <= Len(s) /\ Ink(s, a) # {}}

\* The trimmed, non-empty parts of s, in order.
ExpectedCategories(s) ==
    [k \in 1..Cardinality(PartStarts(s)) |->
        LET a == CHOOSE x \in PartStarts(s) :
                     Cardinality({y \in PartStarts(s) : y < x}) = k - 1
        IN  SubSeq(s, Min(Ink(s, a)), Max(Ink(s, a)))]

\* The request in flight is a GET /events the gate accepted.
AuthenticatedEvents ==
    /\ req.type = "http" /\ req.method = "GET" /\ req.path = "/events"
    /\ "accept" \in Steps(trace)

HasTimeRange(r) == r.start.kind = "iso" /\ r.end.kind = "iso"

\* The query passes validation: both bounds or neither, each well-formed;
\* `cats`, when present, has a non-empty part; and one filter at least.
Valid(r) ==
    /\ \/ HasTimeRange(r)
       \/ r.start.kind = "none" /\ r.end.kind = "none"
    /\ r.cats.present => ExpectedCategories(r.cats.chars) # <<>>
    /\ HasTimeRange(r) \/ r.cats.present

\* The one repository call a valid query asks for.
ExpectedCall(r) ==
    [method |-> IF HasTimeRange(r) /\ r.cats.present
                THEN "get_events_by_time_and_category"
                ELSE IF HasTimeRange(r) THEN "get_events_by_time_range"
                ELSE "get_events_by_category",
     start |-> IF HasTimeRange(r) THEN r.start.instant ELSE 0,
     end |-> IF HasTimeRange(r) THEN r.end.instant ELSE 0,
     categories |-> IF r.cats.present THEN ExpectedCategories(r.cats.chars)
                    ELSE <<>>]

Asked(call) ==
    [method |-> call.method, start |-> call.start, end |-> call.end,
     categories |-> call.categories]

----------------------------------------------------------------------------
\* C6: an authenticated GET /events whose query is valid makes exactly one
\* repository call: the combined method with (start, end, categories) when
\* both filters are present, the time-range method with (start, end) when
\* only the time range is, the category method with the trimmed non-empty
\* category list when only categories are; no call is made before the handler
\* dispatches and none after the call ended; and what the call returns is the
\* body of the 200 response.  start may be later than end.
C6_OneCallByFilterPresence ==
    (AuthenticatedEvents /\ Valid(req)) =>
        /\ pc \in {"app", "handler"} => calls = <<>>
        /\ pc \in {"repo", "done"} =>
              /\ Len(calls) = 1
              /\ Asked(calls[1]) = ExpectedCall(req)
        /\ pc = "repo" => calls[1].outcome = "pending"
        /\ pc = "done" =>
              /\ calls[1].outcome \in {"returned", "raised"}
              /\ calls[1].outcome = "returned" =>
                    /\ resp.status = 200
                    /\ resp.body.kind = "events"
                    /\ resp.body.events = calls[1].events

\* C6 witness: start later than end, two categories, the combined method
\* returned a non-empty list and the response carries it.
C6_Witness ==
    /\ pc = "done"
    /\ AuthenticatedEvents
    /\ req.start.instant > req.end.instant /\ req.end.kind = "iso"
    /\ Len(calls) = 1
    /\ calls[1].method = "get_events_by_time_and_category"
    /\ calls[1].categories = <<<<"a">>, <<"b">>>>
    /\ resp.status = 200
    /\ resp.body.events # <<>>

----------------------------------------------------------------------------
\* C7: an authenticated GET /events whose `cats` is present but has no
\* non-empty part after splitting on ',' and trimming (the empty string
\* included) calls no repository method and is never answered 200, with or
\* without a valid start/end pair beside it.  (The claim names the status,
\* 422; this is the part of it that holds whatever the error status is.)
C7_EmptyCategoryListRejected ==
    (/\ AuthenticatedEvents
     /\ req.cats.present
     /\ ExpectedCategories(req.cats.chars) = <<>>) =>
        /\ calls = <<>>
        /\ pc = "done" => resp.status # 200

----------------------------------------------------------------------------
\* C8: an authenticated GET /events with exactly one of start and end
\* present calls no repository method and is answered 422, whatever the
\* present bound and `cats` are.
C8_IncompleteTimeRangeRejected ==
    (/\ AuthenticatedEvents
     /\ (req.start.kind = "none") # (req.end.kind = "none")) =>
        /\ calls = <<>>
        /\ pc = "done" => resp.status = 422

----------------------------------------------------------------------------
\* C9: an authenticated GET /events with no start, no end and no cats is
\* answered 422; and whenever the handler dispatches (validation has
\* passed), a complete time range or a non-empty category list is present,
\* so the handler's no-filter branch is never taken.
C9_NoFilterRejected ==
    AuthenticatedEvents =>
        /\ (/\ pc = "done"
            /\ req.start.kind = "none" /\ req.end.kind = "none"
            /\ ~req.cats.present) => resp.status = 422
        /\ "dispatch" \in Steps(trace) =>
              \/ HasTimeRange(req)
              \/ req.cats.present /\ ExpectedCategories(req.cats.chars) # <<>>
        /\ "no_filter_branch" \notin Steps(trace)

\* The part of C9 that is about the handler alone: it dispatches only with
\* a filter present, and its no-filter branch is never taken.
C9_NoFilterBranchUnreachable ==
    /\ "dispatch" \in Steps(trace) =>
          \/ HasTimeRange(req)
          \/ req.cats.present /\ ExpectedCategories(req.cats.chars) # <<>>
    /\ "no_filter_branch" \notin Steps(trace)

----------------------------------------------------------------------------
\* C10: when the repository method called for an authenticated GET /events
\* raises, the request is over with status 500 and that call is the
\* only repository call of the request: no retry, no other method.
C10_RepositoryErrorIs500 ==
    (AuthenticatedEvents /\ "repo_raise" \in Steps(trace)) =>
        /\ pc = "done"
        /\ resp.status = 500
        /\ Len(calls) = 1
        /\ calls[1].outcome = "raised"

\* C10 witness: the combined method raised and the answer is 500.
C10_Witness ==
    /\ pc = "done"
    /\ AuthenticatedEvents
    /\ Len(calls) = 1
    /\ calls[1].method = "get_events_by_time_and_category"
    /\ calls[1].outcome = "raised"
    /\ resp.status = 500

----------------------------------------------------------------------------
\* C11: a GET /events or GET /protected request whose repository call
\* did not raise, whatever cookie and whatever start, end and cats it
\* carried, is answered 200, 401 or 422, never 500.
C11_NoUnhandledFault ==
    (/\ pc = "done"
     /\ req.type = "http"
     /\ req.method = "GET"
     /\ req.path \in {"/events", "/protected"}
     /\ "repo_raise" \notin Steps(trace)) =>
        resp.status \in {200, 401, 422}

----------------------------------------------------------------------------
\* C12: the token issued by POST /login, sent back as the cookie on
\* GET /protected at the time of issue, is accepted, and the 200 response
\* echoes its payload: subject "authentication", expiry 15 minutes after
\* the issued-at time.
C12_IssueThenVerifyRoundTrip ==
    (/\ pc = "done"
     /\ req.method = "GET"
     /\ req.path = "/protected"
     /\ req.cookie.kind = "jwt"
     /\ req.cookie = jar
     /\ GateTime = req.cookie.claims.iat) =>
        /\ resp.status = 200
        /\ resp.body.kind = "user"
        /\ resp.body.user = req.cookie.claims
        /\ resp.body.user.sub = "authentication"
        /\ resp.body.user.has_exp
        /\ resp.body.user.exp = resp.body.user.iat + 15

\* The round trip does hold where the server's local time is not behind
\* UTC, so that datetime.utcnow().timestamp() is not ahead of the time.
C12_RoundTripNotWestOfUtc ==
    utcOffset >= 0 => C12_IssueThenVerifyRoundTrip

\* A round trip that succeeded.
C12_RoundTripReached ==
    /\ pc = "done"
    /\ req.path = "/protected"
    /\ req.cookie.kind = "jwt"
    /\ GateTime = req.cookie.claims.iat
    /\ resp.status = 200
    /\ resp.body.user.sub = "authentication"

----------------------------------------------------------------------------
\* The steps of the events route: the validation of the query parameters,
\* the lookup of the principal, the handler, the repository call.
EventsSteps ==
    {"validate", "current_user", "handler:get_events", "dispatch",
     "empty_categories", "no_filter_branch", "repo_return", "repo_raise"}

\* C13: for GET /events, every step of the route - the validation of the
\* query parameters first of all - and every repository call comes after
\* the step in which the gate accepted the request's credential; and a
\* request whose credential does not verify is answered 401 by the gate,
\* with no such step and no call, whatever its query parameters are.
C13_AuthenticationBeforeValidation ==
    (req.type = "http" /\ req.path = "/events") =>
        /\ \A i \in 1..Len(trace) :
               trace[i].step \in EventsSteps =>
                   \E j \in 1..(i - 1) : trace[j].step = "accept"
        /\ (calls # <<>> \/ filter # NoFilter) => "accept" \in Steps(trace)
        /\ (pc = "done" /\ ~ValidAt(req.cookie, GateTime)) =>
               /\ resp.status = 401
               /\ Steps(trace) \cap EventsSteps = {}
               /\ calls = <<>>

\* C13 witness: an unauthenticated request whose start_time is not a date,
\* which validation would reject, was answered 401 and never validated.
C13_Witness ==
    /\ pc = "done"
    /\ req.path = "/events"
    /\ req.cookie.kind = "none"
    /\ req.start.kind = "text"
    /\ resp.status = 401
    /\ "validate" \notin Steps(trace)

----------------------------------------------------------------------------
\* C14: with several requests in flight, interleaved in any way, a
\* principal is set in a request's context only by the gate accepting that
\* request, and it is the payload of the token that request presented; a
\* request the gate denied has no principal set; and the principal the
\* handler of /protected reads and echoes is the payload of the token of
\* its own request.
C14_PrincipalIsTheRequestsOwn ==
    \A s \in Scopes :
        /\ user[s].set =>
               /\ "accept" \in Steps(trace[s])
               /\ user[s].payload = req[s].cookie.claims
        /\ "deny" \in Steps(trace[s]) => ~user[s].set
        /\ "handler:protected_route" \in Steps(trace[s]) =>
               /\ resp[s].status = 200
               /\ resp[s].body.user = req[s].cookie.claims

\* C14 witness: two requests in flight with different principals: the first
\* was answered with its own principal while the second, which the gate has
\* just accepted, waits for its handler.
C14_Witness ==
    /\ pc[1] = "done"
    /\ pc[2] = "app"
    /\ trace[2][Len(trace[2])].step = "accept"
    /\ user[2].set
    /\ req[1].cookie.claims # req[2].cookie.claims
    /\ resp[1].status = 200
    /\ resp[1].body.user = req[1].cookie.claims

====
